---- MODULE Spec2Model ----
(***************************************************************************)
(* Model of src/main.py: the generator function chat_with_ollama, the only *)
(* logic of the Ollama chat front-end.  One run of the generator is        *)
(* followed from the call (Submit) through every resumption by its         *)
(* consumer until the generator has returned or has been closed.           *)
(*                                                                         *)
(* Python values are tagged with their type, a str is the sequence of its  *)
(* characters.  The backend (the ollama client) and the consumer (Gradio)  *)
(* are the environment: the backend chooses what each iteration of the     *)
(* stream delivers, the consumer chooses between resuming and closing.     *)
(***************************************************************************)
EXTENDS Naturals, Sequences, FiniteSets

VARIABLES
    history,    \* the caller's history argument: a list of entries
    message,    \* the caller's message argument: a str
    pc,         \* position of the generator
    state,      \* stage of the run: STARTING, STREAMING, DONE, FAILED
    messages,   \* local `messages` (line 23), as last bound
    request,    \* what this run passed to ollama.chat, or NoRequest
    prevReq,    \* request of the preceding run when it had the same arguments
    conn,       \* the backend connection of this run: none, open, released
    response,   \* local `response` (line 41), as last bound
    parts,      \* the `part` values appended to response in this run
    produced,   \* the values this run has yielded to its consumer
    caught,     \* the exception bound to `e` at line 50, or NoException
    escaped,    \* the exception that left the generator towards its caller
    closed,     \* the consumer closed the generator before it returned
    stderr      \* the lines this run printed to sys.stderr

vars == <<history, message, pc, state, messages, request, prevReq, conn,
          response, parts, produced, caught, escaped, closed, stderr>>

(***************************************************************************)
(* Bounds of the model.                                                    *)
(***************************************************************************)
MaxHist == 2
MaxFrags == 2

(***************************************************************************)
(* Python values.                                                          *)
(***************************************************************************)
PyStr(s) == [type |-> "str", val |-> s]

PyNone == [type |-> "NoneType", val |-> <<>>]

DEFAULT_MODEL == "qwen3:1.7b"

NoException == [cls |-> "", msg |-> ""]

NoRequest == [model |-> "", messages |-> <<>>, stream |-> FALSE]

\* The classes `except Exception` (line 50) catches: every class raised in
\* this model derives from Exception except GeneratorExit, which derives from
\* BaseException alone.
\* (Variant: a clause that catches every class, as a bare `except:` would.)
ExceptExceptionFull(cls) == TRUE

ExceptException(cls) == cls # "GeneratorExit"

(***************************************************************************)
(* Inputs: the arguments Gradio passes and what the backend delivers.      *)
(***************************************************************************)
UserText == PyStr(<<"q">>)

BotText == PyStr(<<"r">>)

Entries ==
    { <<UserText, BotText>>,          \* a completed exchange
      <<UserText, PyNone>>,           \* an exchange whose reply is None
      <<UserText>>                    \* too few elements to unpack
    }

Histories == UNION { [1..n -> Entries] : n \in 0..MaxHist }

Messages == { PyStr(<<>>), PyStr(<<"h", "i">>) }

PartTexts == { <<>>, <<"a">>, <<"b">> }

GoodChunks == { [message |-> [content |-> PyStr(p)]] : p \in PartTexts }

BadChunks == { [message |-> [content |-> PyNone]], [done |-> TRUE] }

BackendErrors ==
    { [cls |-> "ConnectionError", msg |-> "connection refused"] }

(***************************************************************************)
(* Lines 23-29: the message list built from history and message.           *)
(***************************************************************************)
\* `for user_msg, bot_msg in history` unpacks each entry into two names.
\* (Variants: an unpacking that pads a short entry with None, and one that
\* replaces a None reply by the empty string.)
UnpackPadded(entry) ==
    IF Len(entry) >= 2
    THEN [ok |-> TRUE, user_msg |-> entry[1], bot_msg |-> entry[2],
          exc |-> NoException]
    ELSE [ok |-> TRUE, user_msg |-> entry[1], bot_msg |-> PyNone,
          exc |-> NoException]

UnpackCoerce(entry) ==
    IF Len(entry) = 2
    THEN [ok |-> TRUE, user_msg |-> entry[1],
          bot_msg |-> IF entry[2] = PyNone THEN PyStr(<<>>) ELSE entry[2],
          exc |-> NoException]
    ELSE [ok |-> FALSE, user_msg |-> PyNone, bot_msg |-> PyNone,
          exc |-> [cls |-> "ValueError", msg |-> "cannot unpack"]]

Unpack(entry) ==
    IF Len(entry) = 2
    THEN [ok |-> TRUE, user_msg |-> entry[1], bot_msg |-> entry[2],
          exc |-> NoException]
    ELSE IF Len(entry) < 2
    THEN [ok |-> FALSE, user_msg |-> PyNone, bot_msg |-> PyNone,
          exc |-> [cls |-> "ValueError",
                   msg |-> "not enough values to unpack"]]
    ELSE [ok |-> FALSE, user_msg |-> PyNone, bot_msg |-> PyNone,
          exc |-> [cls |-> "ValueError",
                   msg |-> "too many values to unpack"]]

\* Line 23: messages = []
\* (Variant: the list of the previous run, kept instead of a new one.)
StaleList == messages

EmptyList == <<>>

\* Lines 25-26: the two appends of one iteration.
\* (Variant: the two appends in the other order.)
AppendPairSwapped(msgs, user_msg, bot_msg) ==
    msgs \o << [role |-> "assistant", content |-> bot_msg],
               [role |-> "user", content |-> user_msg] >>

AppendPair(msgs, user_msg, bot_msg) ==
    msgs \o << [role |-> "user", content |-> user_msg],
               [role |-> "assistant", content |-> bot_msg] >>

\* Lines 24-26: the loop, from entry i on; it stops at the first entry that
\* does not unpack, with the messages appended so far.
RECURSIVE BuildLoop(_, _, _)
BuildLoop(msgs, h, i) ==
    IF i > Len(h)
    THEN [ok |-> TRUE, messages |-> msgs, exc |-> NoException]
    ELSE LET u == Unpack(h[i])
         IN IF u.ok
            THEN BuildLoop(AppendPair(msgs, u.user_msg, u.bot_msg), h, i + 1)
            ELSE [ok |-> FALSE, messages |-> msgs, exc |-> u.exc]

\* Lines 23-29.
BuildMessages(h, m) ==
    LET r == BuildLoop(EmptyList, h, 1)
    IN IF r.ok
       THEN [r EXCEPT !.messages =
                Append(r.messages, [role |-> "user", content |-> m])]
       ELSE r

(***************************************************************************)
(* Lines 44-45 and 54.                                                     *)
(***************************************************************************)
\* Line 44: part = chunk['message']['content']
Subscript(chunk) ==
    IF "message" \in DOMAIN chunk
    THEN [ok |-> TRUE, part |-> chunk.message.content, exc |-> NoException]
    ELSE [ok |-> FALSE, part |-> PyNone,
          exc |-> [cls |-> "KeyError", msg |-> "'message'"]]

\* Line 45: response += part
TypeErrorNone ==
    [cls |-> "TypeError",
     msg |-> "can only concatenate str (not NoneType) to str"]

\* (Variants: `response = part` and `response = part + response`.)
AccumulateReplace(resp, part) ==
    IF part.type = "str"
    THEN [ok |-> TRUE, response |-> part.val, exc |-> NoException]
    ELSE [ok |-> FALSE, response |-> resp, exc |-> TypeErrorNone]

AccumulatePrepend(resp, part) ==
    IF part.type = "str"
    THEN [ok |-> TRUE, response |-> part.val \o resp, exc |-> NoException]
    ELSE [ok |-> FALSE, response |-> resp, exc |-> TypeErrorNone]

Accumulate(resp, part) ==
    IF part.type = "str"
    THEN [ok |-> TRUE, response |-> resp \o part.val, exc |-> NoException]
    ELSE [ok |-> FALSE, response |-> resp, exc |-> TypeErrorNone]

\* Line 41: response = ""
\* (Variant: the response of the previous run, kept instead of "".)
StaleResponse == response

EmptyResponse == <<>>

\* Line 54: the f-string, as the sequence of its pieces.
\* (Variant: a fixed text that names neither the failure nor the model.)
ErrorMessageGeneric(e) == << "An error occurred." >>

ErrorMessage(e) ==
    << "An error occurred: ", e.msg,
       ". \n\n- Is the Ollama service running? \n- Is the model '",
       DEFAULT_MODEL, "' pulled and spelled correctly?" >>

\* Line 52: the line printed to sys.stderr.
ErrorLine(e) == << "Error occurred: ", e.msg >>

(***************************************************************************)
(* The state after the module is loaded: no run yet.                       *)
(***************************************************************************)
Init ==
    /\ history = <<>>
    /\ message = PyStr(<<>>)
    /\ pc = "idle"
    /\ state = "IDLE"
    /\ messages = <<>>
    /\ request = NoRequest
    /\ prevReq = NoRequest
    /\ conn = "none"
    /\ response = <<>>
    /\ parts = <<>>
    /\ produced = <<>>
    /\ caught = NoException
    /\ escaped = NoException
    /\ closed = FALSE
    /\ stderr = <<>>

(***************************************************************************)
(* Lines 50-55: the handler of `except Exception as e`, up to its yield.   *)
(***************************************************************************)
Handle(e) ==
    /\ caught' = e
    /\ stderr' = Append(stderr, ErrorLine(e))
    /\ produced' = Append(produced, ErrorMessage(e))
    /\ pc' = "error"
    /\ state' = "FAILED"
    /\ UNCHANGED <<escaped, closed>>

\* An exception no clause of the try statement catches leaves the generator,
\* which is then finished.
Propagate(e) ==
    /\ pc' = "finished"
    /\ escaped' = e
    /\ UNCHANGED <<caught, stderr, produced, state, closed>>

\* An exception raised inside the try statement (lines 20-48).
Raise(e) ==
    IF ExceptException(e.cls) THEN Handle(e) ELSE Propagate(e)

(***************************************************************************)
(* Line 15: the call.  It creates the generator; no line of the body runs  *)
(* before the consumer asks for the first value.                           *)
(***************************************************************************)
Submit(m, h) ==
    /\ pc \in {"idle", "finished"}
    /\ history' = h
    /\ message' = m
    /\ pc' = "created"
    /\ state' = "STARTING"
    /\ request' = NoRequest
    /\ prevReq' = IF pc = "finished" /\ h = history /\ m = message
                  THEN request ELSE NoRequest
    /\ conn' = "none"
    /\ parts' = <<>>
    /\ produced' = <<>>
    /\ caught' = NoException
    /\ escaped' = NoException
    /\ closed' = FALSE
    /\ stderr' = <<>>
    /\ UNCHANGED <<messages, response>>

(***************************************************************************)
(* First resumption, lines 20-41.                                          *)
(***************************************************************************)
Request(msgs) == [model |-> DEFAULT_MODEL, messages |-> msgs, stream |-> TRUE]

\* The loop of lines 24-26 raises: no call is made.
BuildFail ==
    /\ pc = "created"
    /\ LET b == BuildMessages(history, message)
       IN /\ ~b.ok
          /\ messages' = b.messages
          /\ Raise(b.exc)
    /\ UNCHANGED <<history, message, request, prevReq, conn, response, parts>>

\* ollama.chat (lines 34-38) raises.
OpenFail(e) ==
    /\ pc = "created"
    /\ LET b == BuildMessages(history, message)
       IN /\ b.ok
          /\ messages' = b.messages
          /\ request' = Request(b.messages)
    /\ Raise(e)
    /\ UNCHANGED <<history, message, prevReq, conn, response, parts>>

\* ollama.chat returns the stream; line 41 binds response.
Open ==
    /\ pc = "created"
    /\ LET b == BuildMessages(history, message)
       IN /\ b.ok
          /\ messages' = b.messages
          /\ request' = Request(b.messages)
    /\ conn' = "open"
    /\ response' = EmptyResponse
    /\ pc' = "opened"
    /\ state' = "STREAMING"
    /\ UNCHANGED <<history, message, prevReq, parts, produced, caught,
                   escaped, closed, stderr>>

(***************************************************************************)
(* Lines 42-48: one iteration of `for chunk in stream`.                    *)
(***************************************************************************)
\* The stream delivers a chunk whose content is a str: lines 44-48.
Chunk(c) ==
    /\ pc \in {"opened", "yielded"}
    /\ Len(parts) < MaxFrags
    /\ Subscript(c).ok
    /\ LET a == Accumulate(response, Subscript(c).part)
       IN /\ a.ok
          /\ response' = a.response
          /\ parts' = Append(parts, Subscript(c).part.val)
          /\ produced' = Append(produced, a.response)
    /\ pc' = "yielded"
    /\ UNCHANGED <<history, message, state, messages, request, prevReq, conn,
                   caught, escaped, closed, stderr>>

\* The stream delivers a chunk on which line 44 or line 45 raises.
MalformedChunk(c) ==
    /\ pc \in {"opened", "yielded"}
    /\ LET s == Subscript(c)
       IN IF s.ok
          THEN /\ ~Accumulate(response, s.part).ok
               /\ Raise(Accumulate(response, s.part).exc)
          ELSE Raise(s.exc)
    /\ UNCHANGED <<history, message, messages, request, prevReq, conn,
                   response, parts>>

\* The stream raises while the loop waits for the next chunk.  A stream that
\* has raised has given up its connection.
StreamFail(e) ==
    /\ pc \in {"opened", "yielded"}
    /\ conn' = "released"
    /\ Raise(e)
    /\ UNCHANGED <<history, message, messages, request, prevReq, response,
                   parts>>

\* The stream is exhausted: the loop ends and the generator returns.  An
\* exhausted stream has given up its connection.
StreamEnd ==
    /\ pc \in {"opened", "yielded"}
    /\ conn' = "released"
    /\ pc' = "finished"
    /\ state' = "DONE"
    /\ UNCHANGED <<history, message, messages, request, prevReq, response,
                   parts, produced, caught, escaped, closed, stderr>>

\* Resumption after line 55: the generator returns.
Return ==
    /\ pc = "error"
    /\ pc' = "finished"
    /\ UNCHANGED <<history, message, state, messages, request, prevReq, conn,
                   response, parts, produced, caught, escaped, closed, stderr>>

(***************************************************************************)
(* The consumer closes the generator where it is suspended.  close()       *)
(* raises GeneratorExit at the yield; a generator that answers it with     *)
(* another yield makes close() raise RuntimeError to the consumer.         *)
(***************************************************************************)
GeneratorExit == [cls |-> "GeneratorExit", msg |-> ""]

IgnoredExit ==
    [cls |-> "RuntimeError", msg |-> "generator ignored GeneratorExit"]

Close ==
    /\ pc \in {"created", "yielded", "error"}
    /\ closed' = TRUE
    /\ IF pc = "yielded" /\ ExceptException(GeneratorExit.cls)
       THEN \* line 48 is inside the try statement: lines 50-55 run
            /\ caught' = GeneratorExit
            /\ stderr' = Append(stderr, ErrorLine(GeneratorExit))
            /\ pc' = "error"
            /\ state' = "FAILED"
            /\ escaped' = IgnoredExit
            /\ UNCHANGED produced
       ELSE /\ pc' = "finished"
            /\ UNCHANGED <<caught, stderr, state, escaped, produced>>
    /\ UNCHANGED <<history, message, messages, request, prevReq, conn,
                   response, parts>>

Next ==
    \/ \E m \in Messages, h \in Histories : Submit(m, h)
    \/ BuildFail
    \/ \E e \in BackendErrors : OpenFail(e)
    \/ Open
    \/ \E c \in GoodChunks \cup BadChunks : Chunk(c)
    \/ \E c \in GoodChunks \cup BadChunks : MalformedChunk(c)
    \/ \E e \in BackendErrors : StreamFail(e)
    \/ StreamEnd
    \/ Return
    \/ Close

Spec == Init /\ [][Next]_vars

(***************************************************************************)
(* Vocabulary of the properties.                                           *)
(***************************************************************************)
IsPrefix(s, t) == Len(s) <= Len(t) /\ SubSeq(t, 1, Len(s)) = s

Last(s) == s[Len(s)]

\* f1 + f2 + ... + fn, computed from the fragments alone.
RECURSIVE Concat(_)
Concat(fs) == IF fs = <<>> THEN <<>> ELSE Head(fs) \o Concat(Tail(fs))

\* Every entry of h is a two-element pair.
AllPairs(h) == \A i \in 1..Len(h) : Len(h[i]) = 2

Started == state \notin {"IDLE", "STARTING"}

(***************************************************************************)
(* C1.  When the backend delivers the fragments f1..fn and then ends       *)
(* normally, the run has produced exactly n values, the i-th being         *)
(* f1+...+fi in delivery order, and no error value: nothing was caught and *)
(* nothing was printed.                                                    *)
(***************************************************************************)
C1_PrefixConcatenations ==
    state = "DONE" =>
        /\ Len(produced) = Len(parts)
        /\ \A i \in 1..Len(parts) : produced[i] = Concat(SubSeq(parts, 1, i))
        /\ caught = NoException
        /\ stderr = <<>>

C1_Witness ==
    /\ state = "DONE"
    /\ parts = << <<"a">>, <<"b">> >>
    /\ produced = << <<"a">>, <<"a", "b">> >>

(***************************************************************************)
(* C2.  When a run whose request was issued has failed after k fragments   *)
(* (k = 0 included), it has produced exactly k+1 values: the k prefix      *)
(* concatenations and then the failure message alone, which names the      *)
(* failure and the configured model and does not continue the partial      *)
(* response.                                                               *)
(***************************************************************************)
C2_FailureAfterK ==
    (state = "FAILED" /\ request # NoRequest) =>
        /\ Len(produced) = Len(parts) + 1
        /\ \A i \in 1..Len(parts) : produced[i] = Concat(SubSeq(parts, 1, i))
        /\ caught # NoException
        /\ LET v == Last(produced)
           IN /\ \E i \in 1..Len(v) : v[i] = caught.msg
              /\ \E i \in 1..Len(v) : v[i] = DEFAULT_MODEL
              /\ v[1] = "An error occurred: "
              /\ response # <<>> => ~IsPrefix(response, v)

C2_Witness ==
    /\ state = "FAILED"
    /\ caught.cls = "ConnectionError"
    /\ Len(parts) = 2
    /\ response = <<"a", "b">>
    /\ Len(produced) = 3

(***************************************************************************)
(* C3 as amended.  No exception leaves the generator.  Every exception     *)
(* raised while building the messages, opening the call, awaiting a chunk  *)
(* or reading its content is caught and turned into exactly one terminal   *)
(* value, the failure message.  When the consumer closes the sequence      *)
(* early, the run ends without any further value: no failure message is    *)
(* produced for it.                                                        *)
(***************************************************************************)
C3_NoErrorEscapes ==
    /\ escaped = NoException
    /\ caught # NoException =>
          /\ state = "FAILED"
          /\ Len(produced) = Len(parts) + 1
          /\ Last(produced) = ErrorMessage(caught)
    /\ (closed /\ caught = NoException) =>
          /\ state # "FAILED"
          /\ Len(produced) = Len(parts)
          /\ pc = "finished"

C3_Witness ==
    /\ caught.cls \in {"KeyError", "TypeError"}
    /\ pc = "finished"
    /\ ~closed
    /\ Len(parts) >= 1

\* C3 as stated: also a run the consumer closed after some value ends with
\* the terminal failure message.
C3_Original ==
    /\ escaped = NoException
    /\ (closed /\ pc = "finished" /\ produced # <<>>) =>
          /\ caught # NoException
          /\ Last(produced) = ErrorMessage(caught)

(***************************************************************************)
(* C4.  The message list sent to the backend has length 2*len(h)+1, its    *)
(* roles alternate user, assistant, ..., user, its contents are the        *)
(* history texts in order followed by the new message, and for an empty    *)
(* history it is the one user message.                                     *)
(***************************************************************************)
C4_PayloadShape ==
    request # NoRequest =>
        LET ms == request.messages
            n == Len(history)
        IN /\ Len(ms) = 2 * n + 1
           /\ \A i \in 1..Len(ms) :
                 ms[i].role = IF i % 2 = 1 THEN "user" ELSE "assistant"
           /\ \A i \in 1..n :
                 /\ ms[2 * i - 1].content = history[i][1]
                 /\ ms[2 * i].content = history[i][2]
           /\ Last(ms).content = message
           /\ n = 0 => ms = << [role |-> "user", content |-> message] >>

C4_Witness ==
    /\ request # NoRequest
    /\ Len(history) = 2
    /\ message = PyStr(<<>>)
    /\ Len(request.messages) = 5

(***************************************************************************)
(* C5 as amended.  A history of pairs in which a reply is None is adapted  *)
(* without error: the request is issued, and that message's content is     *)
(* None, passed through unchanged.                                         *)
(***************************************************************************)
HasNoneReply(h) == \E i \in 1..Len(h) : Len(h[i]) = 2 /\ h[i][2] = PyNone

C5_NonePassedThrough ==
    (Started /\ AllPairs(history) /\ HasNoneReply(history)) =>
        /\ request # NoRequest
        /\ caught.cls # "ValueError"
        /\ \A i \in 1..Len(history) :
              history[i][2] = PyNone => request.messages[2 * i].content = PyNone

C5_Witness ==
    /\ request # NoRequest
    /\ Len(history) = 2
    /\ history[1][2] = PyNone
    /\ request.messages[2].content = PyNone
    /\ state = "DONE"

\* C5 as stated: the content sent for a None reply is the empty string.
C5_Original ==
    (Started /\ AllPairs(history) /\ HasNoneReply(history)) =>
        /\ request # NoRequest
        /\ \A i \in 1..Len(history) :
              history[i][2] = PyNone =>
                  request.messages[2 * i].content = PyStr(<<>>)

(***************************************************************************)
(* C6.  No run ends with its connection still open.                        *)
(***************************************************************************)
C6_ConnectionReleased == pc = "finished" => conn # "open"

(***************************************************************************)
(* C7.  A run moves STARTING -> STREAMING -> DONE | FAILED or STARTING ->  *)
(* FAILED and nowhere else; once it has ended it produces no value and     *)
(* consumes no fragment; a later request starts with nothing produced and, *)
(* when it begins to stream, with an empty response, so that its first     *)
(* value is its first fragment alone.                                      *)
(***************************************************************************)
RunTransitions ==
    { <<"STARTING", "STREAMING">>, <<"STARTING", "FAILED">>,
      <<"STREAMING", "DONE">>, <<"STREAMING", "FAILED">> }

NewRun == pc \in {"idle", "finished"} /\ pc' = "created"

Ended == pc = "finished" \/ state \in {"DONE", "FAILED"}

C7_Step ==
    /\ \/ state' = state
       \/ <<state, state'>> \in RunTransitions
       \/ NewRun /\ state' = "STARTING"
    /\ (Ended /\ ~NewRun) =>
          /\ state' = state
          /\ produced' = produced
          /\ parts' = parts
          /\ response' = response
    /\ NewRun => produced' = <<>> /\ parts' = <<>>
    /\ pc' = "opened" => response' = <<>>
    /\ (pc = "opened" /\ pc' = "yielded") => produced' = <<parts'[1]>>

C7_RunStateMachine == [][C7_Step]_vars

C7_Witness ==
    /\ pc = "yielded"
    /\ prevReq # NoRequest
    /\ Len(produced) = 1
    /\ produced[1] = <<"b">>

(***************************************************************************)
(* C8 as amended.  The values a run produces from fragments never shrink   *)
(* and each extends the one before it as a prefix; the terminal failure    *)
(* message is the one value that need not extend its predecessor.          *)
(***************************************************************************)
C8_FragmentValuesGrow ==
    /\ Len(produced) >= Len(parts)
    /\ \A i \in 1..Len(parts) : i + 1 <= Len(parts) =>
          /\ Len(produced[i]) <= Len(produced[i + 1])
          /\ IsPrefix(produced[i], produced[i + 1])

C8_Witness ==
    /\ state = "FAILED"
    /\ Len(parts) = 2
    /\ parts[1] # <<>>
    /\ parts[2] # <<>>
    /\ parts[1] # parts[2]

\* C8 as stated: every produced value extends the one before it.
C8_Original ==
    \A i \in 1..Len(produced) : i + 1 <= Len(produced) =>
        /\ Len(produced[i]) <= Len(produced[i + 1])
        /\ IsPrefix(produced[i], produced[i + 1])

(***************************************************************************)
(* C9.  A run leaves the caller's history and message as they were, and a  *)
(* run with the arguments of the run before it sends the backend the same  *)
(* request: nothing an earlier run left behind enters the payload.         *)
(***************************************************************************)
C9_Step ==
    /\ ~NewRun => history' = history /\ message' = message
    /\ (prevReq' # NoRequest /\ request' # NoRequest) => request' = prevReq'

C9_AdaptationPure == [][C9_Step]_vars

C9_Witness ==
    /\ prevReq # NoRequest
    /\ request # NoRequest
    /\ Len(history) = 2
    /\ pc = "finished"

(***************************************************************************)
(* C10.  When the history holds an entry that is not a two-element pair,   *)
(* the started run issues no request and opens no connection; it produces  *)
(* exactly one value, the failure message, and raises nothing.             *)
(***************************************************************************)
C10_BuildFailure ==
    (Started /\ ~AllPairs(history)) =>
        /\ request = NoRequest
        /\ conn = "none"
        /\ state = "FAILED"
        /\ parts = <<>>
        /\ caught.cls = "ValueError"
        /\ produced = << ErrorMessage(caught) >>
        /\ escaped = NoException

C10_Witness ==
    /\ pc = "finished"
    /\ ~closed
    /\ state = "FAILED"
    /\ Len(history) = 2
    /\ Len(history[1]) = 2
    /\ Len(history[2]) = 1
    /\ Len(produced) = 1

====
